---- MODULE Spec2Model ----
(***************************************************************************)
(* The notebook "Shor Implementation.ipynb": the path-encoding helpers     *)
(* toFockState / toQubitState, the 12-mode circuit the notebook builds,    *)
(* the simulator bound to it and the amplitude loop, as a state machine.   *)
(* A run executes the notebook's cells top to bottom; once the last cell   *)
(* has run, the session stays open: at its prompt toFockState or probampli *)
(* may be called on any argument of the bounded input sets, one call at a  *)
(* time, and the amplitude cell may be run again.  toQubitState, which no  *)
(* cell calls, is called on its inputs right after its definition.         *)
(*                                                                         *)
(* Python lists are sequences; Python's 0-based l[i] is At(l, i).          *)
(***************************************************************************)
EXTENDS Integers, Sequences, FiniteSets

\* ------------------------------------------------------------------ bounds

\* Largest total photon number of the Fock states handed to toQubitState.
MaxPhotons == 5

\* Largest total photon number of the Fock states handed to probampli in the
\* open session.
MaxQueryPhotons == 1

\* How far below 0 and above 1 the entries of the lists of integers handed to
\* toQubitState reach: from -MaxDeviation to 1 + MaxDeviation.
MaxDeviation == 1

\* --------------------------------------------------------------- utilities

\* Python's None where a list may stand: a value no list of integers equals.
None == <<"None">>

\* A name the notebook has not assigned yet (a record, or an empty list).
Unset == [unset |-> TRUE]

At(l, i) == l[i + 1]

Abs(x) == IF x < 0 THEN -x ELSE x

RECURSIVE Gcd(_, _)
Gcd(a, b) == IF b = 0 THEN a ELSE Gcd(b, a % b)

RECURSIVE SumSeq(_)
SumSeq(s) == IF s = <<>> THEN 0 ELSE Head(s) + SumSeq(Tail(s))

\* The list <<f[1], ..., f[n]>> of the entries of f.
ListOf(f, n) == SubSeq(f, 1, n)

\* -------------------------------------------------------- exact amplitudes
\* The matrix entries of the beam splitters and phase shifters used lie in the
\* field Q(sqrt 2, sqrt 3, i).  A number is [n, d]: the value
\*   (n[1] + n[2] sqrt2 + n[3] sqrt3 + n[4] sqrt6
\*      + i (n[5] + n[6] sqrt2 + n[7] sqrt3 + n[8] sqrt6)) / d
\* with d > 0 and the nine integers coprime, so equal values are equal records.

Coeffs == 1 .. 8

GcdAll(n, d) ==
    LET g1 == Gcd(d, Abs(n[1]))
        g2 == Gcd(g1, Abs(n[2]))
        g3 == Gcd(g2, Abs(n[3]))
        g4 == Gcd(g3, Abs(n[4]))
        g5 == Gcd(g4, Abs(n[5]))
        g6 == Gcd(g5, Abs(n[6]))
        g7 == Gcd(g6, Abs(n[7]))
    IN  Gcd(g7, Abs(n[8]))

Num(n, d) ==
    LET g == GcdAll(n, d)
    IN  [n |-> ListOf([k \in Coeffs |-> n[k] \div g], 8), d |-> d \div g]

Rat(p, q) == Num(<<p, 0, 0, 0, 0, 0, 0, 0>>, q)

Zero == Rat(0, 1)

One == Rat(1, 1)

ImagUnit == Num(<<0, 0, 0, 0, 1, 0, 0, 0>>, 1)

CAdd(x, y) ==
    Num([k \in Coeffs |-> x.n[k] * y.d + y.n[k] * x.d], x.d * y.d)

CNeg(x) == [n |-> ListOf([k \in Coeffs |-> -x.n[k]], 8), d |-> x.d]

\* The product of a = <<a1, a2, a3, a6>> and b in Q(sqrt 2, sqrt 3).
RealMul(a, b) ==
    << a[1] * b[1] + 2 * a[2] * b[2] + 3 * a[3] * b[3] + 6 * a[4] * b[4],
       a[1] * b[2] + a[2] * b[1] + 3 * (a[3] * b[4] + a[4] * b[3]),
       a[1] * b[3] + a[3] * b[1] + 2 * (a[2] * b[4] + a[4] * b[2]),
       a[1] * b[4] + a[4] * b[1] + a[2] * b[3] + a[3] * b[2] >>

RePart(x) == <<x.n[1], x.n[2], x.n[3], x.n[4]>>

ImPart(x) == <<x.n[5], x.n[6], x.n[7], x.n[8]>>

CMul(x, y) ==
    LET rr == RealMul(RePart(x), RePart(y))
        ii == RealMul(ImPart(x), ImPart(y))
        ri == RealMul(RePart(x), ImPart(y))
        ir == RealMul(ImPart(x), RePart(y))
    IN  Num([k \in Coeffs |->
               IF k <= 4 THEN rr[k] - ii[k] ELSE ri[k - 4] + ir[k - 4]],
            x.d * y.d)

CConj(x) ==
    [n |-> ListOf([k \in Coeffs |-> IF k <= 4 THEN x.n[k] ELSE -x.n[k]], 8),
     d |-> x.d]

\* |x|^2
AbsSquared(x) == CMul(x, CConj(x))

\* sqrt(p/q) for the ratios whose root lies in Q(sqrt 2, sqrt 3):
\* p q = s^2 t with t in {1, 2, 3, 6}, and sqrt(p/q) = s sqrt(t) / q.
SqrtRat(p, q) ==
    LET st == CHOOSE v \in (0 .. (p * q)) \X {1, 2, 3, 6} :
                  v[1] * v[1] * v[2] = p * q \/ (p = 0 /\ v[1] = 0 /\ v[2] = 1)
        s == st[1]
        t == st[2]
    IN  Num(<<IF t = 1 THEN s ELSE 0, IF t = 2 THEN s ELSE 0,
              IF t = 3 THEN s ELSE 0, IF t = 6 THEN s ELSE 0, 0, 0, 0, 0>>, q)

\* e^{i phi} for phi = quarters * pi/2
ExpI(quarters) ==
    CASE quarters % 4 = 0 -> One
      [] quarters % 4 = 1 -> ImagUnit
      [] quarters % 4 = 2 -> CNeg(One)
      [] quarters % 4 = 3 -> CNeg(ImagUnit)

RECURSIVE CSum(_)
CSum(s) == IF s = <<>> THEN Zero ELSE CAdd(Head(s), CSum(Tail(s)))

\* ------------------------------------------------ the simulation library
\* perceval.lib.symb, pcvl.Circuit and the "Naive" backend are not part of the
\* notebook.  They are modelled from the design specification (4.1, 4.2); the
\* parameterisation of the beam splitter is the one the recorded circ.U shows
\* (RecordedU below): diagonal sqrt(1-R), off-diagonal i sqrt(R) e^{-+i phi}.
\* R is a ratio <<p, q>>; phi is given in quarter turns (phi = quarters * pi/2).

symb_BS(R, quarters) == [kind |-> "BS", R |-> R, phi |-> quarters]

symb_PS(quarters) == [kind |-> "PS", phi |-> quarters]

\* Number of modes a component acts on.
Arity(comp) == IF comp.kind = "BS" THEN 2 ELSE 1

\* The local unitary of a component, as a list of rows.
LocalUnitary(comp) ==
    IF comp.kind = "BS"
    THEN LET c == SqrtRat(comp.R[2] - comp.R[1], comp.R[2])
             s == SqrtRat(comp.R[1], comp.R[2])
         IN  << <<c, CMul(ImagUnit, CMul(ExpI(3 * comp.phi), s))>>,
                <<CMul(ImagUnit, CMul(ExpI(comp.phi), s)), c>> >>
    ELSE << <<ExpI(comp.phi)>> >>

\* pcvl.Circuit(m)
Circuit(m) == [m |-> m, comps |-> <<>>]

\* circ.add(modes, comp): the component is appended, bound to the modes; a mode
\* outside [0, m) or a number of modes that is not the component's arity is
\* reported and nothing is appended.
CircuitAdd(c, modes, comp) ==
    IF \E k \in 1 .. Len(modes) : modes[k] < 0 \/ modes[k] >= c.m
    THEN [err |-> "InvalidModeIndex", circ |-> c]
    ELSE IF Len(modes) # Arity(comp)
    THEN [err |-> "ModeCountMismatch", circ |-> c]
    ELSE [err |-> "",
          circ |-> [c EXCEPT !.comps = Append(@, [modes |-> modes, comp |-> comp])]]

\* The m x m identity, as a list of rows.
Identity(m) ==
    ListOf([r \in 1 .. m |->
              ListOf([c \in 1 .. m |-> IF r = c THEN One ELSE Zero], m)], m)

\* Position of mode r in the list modes, 0 when it is not in it.
PositionIn(modes, r) ==
    IF \E k \in 1 .. Len(modes) : modes[k] = r
    THEN CHOOSE k \in 1 .. Len(modes) : modes[k] = r
    ELSE 0

\* The component applied after U: the rows of its modes are mixed by its local
\* unitary, every other mode passes through.
ApplyComponent(U, m, modes, u) ==
    ListOf([r \in 1 .. m |->
              LET a == PositionIn(modes, r - 1)
              IN  IF a = 0 THEN U[r]
                  ELSE ListOf([c \in 1 .. m |->
                                 CSum([b \in 1 .. Len(modes) |->
                                         CMul(u[a][b], U[modes[b] + 1][c])])],
                              m)],
           m)

\* circ.U: the product of the components' unitaries in insertion order,
\* starting from the identity U of m modes.
RECURSIVE UnitaryFrom(_, _, _)
UnitaryFrom(U, m, comps) ==
    IF comps = <<>> \/ Len(U) # m THEN U
    ELSE UnitaryFrom(ApplyComponent(U, m, Head(comps).modes,
                                    LocalUnitary(Head(comps).comp)),
                     m, Tail(comps))

ComputeUnitary(c) == UnitaryFrom(Identity(c.m), c.m, c.comps)

\* The list without its k-th entry.
Without(l, k) == SubSeq(l, 1, k - 1) \o SubSeq(l, k + 1, Len(l))

\* The permanent of the square matrix A restricted to the rows r.. and the
\* columns listed in cols: the sum over the permutations, expanded along row r.
RECURSIVE PermanentFrom(_, _, _)
PermanentFrom(A, r, cols) ==
    IF cols = <<>> THEN One
    ELSE CSum(ListOf([k \in 1 .. Len(cols) |->
                        CMul(A[r][cols[k]],
                             PermanentFrom(A, r + 1, Without(cols, k)))],
                     Len(cols)))

Permanent(A) == PermanentFrom(A, 1, [k \in 1 .. Len(A) |-> k])

\* The occupied modes of a Fock state, each as often as it holds photons.
RECURSIVE OccupiedModes(_)
OccupiedModes(state) ==
    IF state = <<>> THEN <<>>
    ELSE LET k == Len(state)
         IN  OccupiedModes(SubSeq(state, 1, k - 1)) \o [j \in 1 .. state[k] |-> k - 1]

RECURSIVE Factorial(_)
Factorial(k) == IF k <= 1 THEN 1 ELSE k * Factorial(k - 1)

RECURSIVE FactorialProduct(_)
FactorialProduct(state) ==
    IF state = <<>> THEN 1
    ELSE Factorial(Head(state)) * FactorialProduct(Tail(state))

\* probampli without the test of the photon numbers: the permanent of the
\* largest square matrix the two states give.
probampli_unchecked(U, inputState, outputState) ==
    LET ins == OccupiedModes(inputState)
        outs == OccupiedModes(outputState)
        n == IF Len(ins) < Len(outs) THEN Len(ins) ELSE Len(outs)
        A == ListOf([r \in 1 .. n |->
                       ListOf([c \in 1 .. n |-> U[outs[r] + 1][ins[c] + 1]], n)],
                    n)
    IN  CMul(Permanent(A),
             SqrtRat(1, FactorialProduct(inputState)
                           * FactorialProduct(outputState)))

\* simulator.probampli(input, output): 0 when the photon numbers differ, else
\* the permanent of the matrix of U's rows of the output photons and columns
\* of the input photons, over sqrt(input! output!).
probampli(U, inputState, outputState) ==
    IF SumSeq(inputState) # SumSeq(outputState) THEN Zero
    ELSE LET ins == OccupiedModes(inputState)
             outs == OccupiedModes(outputState)
             n == Len(ins)
             A == ListOf([r \in 1 .. n |->
                            ListOf([c \in 1 .. n |-> U[outs[r] + 1][ins[c] + 1]], n)],
                         n)
         IN  CMul(Permanent(A),
                  SqrtRat(1, FactorialProduct(inputState)
                                * FactorialProduct(outputState)))


\* ------------------------------------------------- path encoding functions

\* Number of optical modes: pcvl.Circuit(12), and the length of the list
\* toFockState builds.
M == 12

Modes == 0 .. (M - 1)

\* pe = {0:[1,0], 1:[0,1]}
pe(b) == IF b = 0 THEN <<1, 0>> ELSE <<0, 1>>

\* toFockState as the documentation of the photonic circuit words it: the
\* qubits x1, x2, f1, f2 on the pairs (1,2), (3,4), (7,8), (9,10) in that order.
toFockState_listed(qubitState) ==
    <<0>> \o pe(At(qubitState, 0)) \o pe(At(qubitState, 1)) \o <<0, 0>>
          \o pe(At(qubitState, 2)) \o pe(At(qubitState, 3)) \o <<0>>

\* toFockState with a wrong rail table: both qubit values light the first rail.
toFockState_stuck(qubitState) ==
    <<0>> \o <<1, 0>> \o pe(At(qubitState, 2)) \o <<0, 0>>
          \o pe(At(qubitState, 1)) \o pe(At(qubitState, 3)) \o <<0>>

\* toFockState that forgets the trailing auxiliary mode.
toFockState_short(qubitState) ==
    <<0>> \o pe(At(qubitState, 0)) \o pe(At(qubitState, 2)) \o <<0, 0>>
          \o pe(At(qubitState, 1)) \o pe(At(qubitState, 3))

toFockState(qubitState) ==
    <<0>> \o pe(At(qubitState, 0)) \o pe(At(qubitState, 2)) \o <<0, 0>>
          \o pe(At(qubitState, 1)) \o pe(At(qubitState, 3)) \o <<0>>

\* The local mode lists of toQubitState.
toQubitStateModes ==
    [x1 |-> <<1, 2>>, f1 |-> <<3, 4>>, x2 |-> <<7, 8>>, f2 |-> <<9, 10>>,
     am1 |-> <<0, 5>>, am2 |-> <<6, 11>>]

\* for i in am1 + am2: if fockState[i] != 0: return None
AuxiliaryOccupied(fockState) ==
    LET am == toQubitStateModes.am1 \o toQubitStateModes.am2
    IN  \E k \in 1 .. Len(am) : At(fockState, am[k]) # 0

\* for q in qs: if the pair does not hold one photon: return None
\*              else: L.append(fockState[q[1]])
RECURSIVE QubitModesLoop(_, _, _)
QubitModesLoop(fockState, qs, L) ==
    IF qs = <<>> THEN L
    ELSE LET q == Head(qs)
         IN  IF At(fockState, At(q, 0)) + At(fockState, At(q, 1)) # 1
             THEN None
             ELSE QubitModesLoop(fockState, Tail(qs),
                                 Append(L, At(fockState, At(q, 1))))

\* toQubitState that skips the test of the auxiliary modes.
toQubitState_noaux(fockState) ==
    LET m == toQubitStateModes
    IN  QubitModesLoop(fockState, <<m.x1, m.x2, m.f1, m.f2>>, <<>>)

\* toQubitState reading the pairs in the order of the modes, x1, f1, x2, f2.
toQubitState_bymode(fockState) ==
    LET m == toQubitStateModes
    IN  IF AuxiliaryOccupied(fockState) THEN None
        ELSE QubitModesLoop(fockState, <<m.x1, m.f1, m.x2, m.f2>>, <<>>)

toQubitState(fockState) ==
    LET m == toQubitStateModes
    IN  IF AuxiliaryOccupied(fockState) THEN None
        ELSE QubitModesLoop(fockState, <<m.x1, m.x2, m.f1, m.f2>>, <<>>)

\* ------------------------------------------------------------ input sets

\* The comprehension with its for clauses in the opposite order:
\* [x1,x2,f1,f2] for f2 in [0,1] for f1 in [0,1] for x2 in [0,1] for x1 in [0,1]
output_qubit_states_f2first ==
    LET bit(k, j) == (k \div j) % 2
    IN  ListOf([k \in 1 .. 16 |->
                  <<bit(k - 1, 1), bit(k - 1, 2), bit(k - 1, 4), bit(k - 1, 8)>>],
               16)

\* [x1,x2,f1,f2] for x1 in [0,1] for x2 in [0,1] for f1 in [0,1] for f2 in [0,1]
output_qubit_states ==
    LET bit(k, j) == (k \div j) % 2
    IN  ListOf([k \in 1 .. 16 |->
                  <<bit(k - 1, 8), bit(k - 1, 4), bit(k - 1, 2), bit(k - 1, 1)>>],
               16)

QubitStates == {output_qubit_states[k] : k \in 1 .. 16}

\* The lists of n occupations, each >= 0, of total at most p.
RECURSIVE Occupations(_, _)
Occupations(n, p) ==
    IF n = 0 THEN {<<>>}
    ELSE UNION {{<<k>> \o t : t \in Occupations(n - 1, p - k)} : k \in 0 .. p}

\* The 12-mode Fock states handed to toQubitState.
FockInputs == Occupations(M, MaxPhotons)

\* Lists of 12 integers that need not be occupations, handed to toQubitState,
\* which validates nothing about its argument: a state of the encoding with the
\* entries of two adjacent modes replaced by integers that may be negative or
\* larger than 1.
IntegerInputs ==
    LET range == (0 - MaxDeviation) .. (1 + MaxDeviation)
        bases == {<<0>> \o pe(a) \o pe(b) \o <<0, 0>> \o pe(c) \o pe(d) \o <<0>> :
                      a \in {0, 1}, b \in {0, 1}, c \in {0, 1}, d \in {0, 1}}
    IN  {ListOf([k \in 1 .. M |->
                   IF k = i THEN v ELSE IF k = i + 1 THEN w ELSE base[k]], M) :
             base \in bases, i \in 1 .. (M - 1), v \in range, w \in range}

\* The 12-mode Fock states handed to probampli in the open session: the
\* photons in the modes 0..5, the modes 6..11 empty.
QueryStates ==
    {f \o <<0, 0, 0, 0, 0, 0>> : f \in Occupations(6, MaxQueryPhotons)}

\* ------------------------------------------------------- the circuit cell

\* qubit modes, for qubit states 0, 1
x1 == <<1, 2>>

f1 == <<3, 4>>

\* x2 on the pair the documentation of the photonic circuit lists second.
x2_listed == <<3, 4>>

x2 == <<7, 8>>

f2 == <<9, 10>>

\* am1 with its second mode one further, in the other half of the circuit.
am1_far == <<0, 6>>

\* auxiliary modes
am1 == <<0, 5>>

\* am2 with its second mode one past the last mode of the circuit.
am2_off == <<6, 12>>

am2 == <<6, 11>>

\* circ.add(q, symb.BS(R=1/2, phi=sp.pi/2)); circ.add(q[1], symb.PS(phi=sp.pi))
HGate(q) ==
    << [modes |-> q, comp |-> symb_BS(<<1, 2>>, 1)],
       [modes |-> <<At(q, 1)>>, comp |-> symb_PS(2)] >>

\* A CZ gate with the modes of each qubit taken the other way round: the inner
\* beam splitter on x[0], f[1], the outer ones on x[1] and f[0].
CZGate_crossed(x, f, am) ==
    << [modes |-> <<At(am, 0), At(x, 1)>>, comp |-> symb_BS(<<2, 3>>, 0)],
       [modes |-> <<At(x, 0), At(f, 1)>>, comp |-> symb_BS(<<2, 3>>, 0)],
       [modes |-> <<At(f, 0), At(am, 1)>>, comp |-> symb_BS(<<2, 3>>, 0)] >>

\* A CZ gate built from balanced beam splitters, symb.BS(R=1/2).
CZGate_balanced(x, f, am) ==
    << [modes |-> <<At(am, 0), At(x, 0)>>, comp |-> symb_BS(<<1, 2>>, 0)],
       [modes |-> <<At(x, 1), At(f, 0)>>, comp |-> symb_BS(<<1, 2>>, 0)],
       [modes |-> <<At(f, 1), At(am, 1)>>, comp |-> symb_BS(<<1, 2>>, 0)] >>

\* The three circ.add calls of one CZ gate, symb.BS(R=2/3) each.
CZGate(x, f, am) ==
    << [modes |-> <<At(am, 0), At(x, 0)>>, comp |-> symb_BS(<<2, 3>>, 0)],
       [modes |-> <<At(x, 1), At(f, 0)>>, comp |-> symb_BS(<<2, 3>>, 0)],
       [modes |-> <<At(f, 1), At(am, 1)>>, comp |-> symb_BS(<<2, 3>>, 0)] >>

\* for q in [x1, f1, x2, f2]: the H gate
FirstHGates == HGate(x1) \o HGate(f1) \o HGate(x2) \o HGate(f2)

\* for x, f, am in [(x1, f1, am1), (x2, f2, am2)]: the CZ gate
CZGates == CZGate(x1, f1, am1) \o CZGate(x2, f2, am2)

\* for q in [f1, f2]: the H gate
SecondHGates == HGate(f1) \o HGate(f2)

\* The cell with its CZ loop moved in front of the first H loop.
AddCalls_czfirst == CZGates \o FirstHGates \o SecondHGates

\* The circ.add calls of the cell, in the order it makes them.
AddCalls == FirstHGates \o CZGates \o SecondHGates

\* ------------------------------------------------------- recorded outputs

\* The display of circ.U the notebook records: two equal 6 x 6 blocks on the
\* diagonal (modes 0..5 and 6..11), zero elsewhere.
RecordedBlock ==
    LET z == Zero
        r3 == Num(<<0, 0, 1, 0, 0, 0, 0, 0>>, 3)    \* sqrt(3)/3
        i3 == Num(<<0, 0, 0, 0, 0, 0, 1, 0>>, 3)    \* sqrt(3) i/3
        r6 == Num(<<0, 0, 0, 1, 0, 0, 0, 0>>, 6)    \* sqrt(6)/6
        i6 == Num(<<0, 0, 0, 0, 0, 0, 0, 1>>, 6)    \* sqrt(6) i/6
        j3 == Num(<<0, 0, 0, 0, 0, 0, 0, 1>>, 3)    \* sqrt(6) i/3
    IN  << <<r3, i3, i3,       z,  z,        z>>,
           <<j3, r6, r6,       z,  z,        z>>,
           <<z,  r6, CNeg(r6), i3, i3,       z>>,
           <<z,  i6, CNeg(i6), r3, z,        i3>>,
           <<z,  i6, CNeg(i6), z,  r3,       CNeg(i3)>>,
           <<z,  z,  z,        i3, CNeg(i3), r3>> >>

RecordedU ==
    ListOf([r \in 1 .. M |->
              ListOf([c \in 1 .. M |->
                        IF r <= 6 /\ c <= 6 THEN RecordedBlock[r][c]
                        ELSE IF r > 6 /\ c > 6 THEN RecordedBlock[r - 6][c - 6]
                        ELSE Zero], M)], M)

\* A printed float, cut to its 8 leading digits: s is its sign (0 for a printed
\* zero), and its magnitude lies in [lead, lead + 1) * 10^(exp - 7).
Dec(s, lead, exp) == [s |-> s, lead |-> lead, exp |-> exp]

DecZero == Dec(0, 0, 0)

\* The amplitudes the recorded run printed, one line per output qubit state,
\* as <<real part, imaginary part>>.
RecordedAmplitudes ==
    << <<DecZero, DecZero>>,                                        \* |0,0,0,0>
       <<Dec(1, 55555555, -2), DecZero>>,                           \* |0,0,0,1>
       <<DecZero, DecZero>>,                                        \* |0,0,1,0>
       <<DecZero, DecZero>>,                                        \* |0,0,1,1>
       <<Dec(-1, 55555555, -2), Dec(-1, 17347234, -18)>>,           \* |0,1,0,0>
       <<Dec(-1, 13877787, -17), Dec(-1, 17347234, -18)>>,          \* |0,1,0,1>
       <<Dec(-1, 17347234, -18), DecZero>>,                         \* |0,1,1,0>
       <<DecZero, DecZero>>,                                        \* |0,1,1,1>
       <<DecZero, DecZero>>,                                        \* |1,0,0,0>
       <<Dec(-1, 13877787, -17), DecZero>>,                         \* |1,0,0,1>
       <<Dec(-1, 17347234, -18), DecZero>>,                         \* |1,0,1,0>
       <<Dec(-1, 55555555, -2), Dec(-1, 17347234, -18)>>,           \* |1,0,1,1>
       <<Dec(1, 13877787, -17), DecZero>>,                          \* |1,1,0,0>
       <<DecZero, DecZero>>,                                        \* |1,1,0,1>
       <<Dec(1, 55555555, -2), DecZero>>,                           \* |1,1,1,0>
       <<Dec(1, 13877787, -17), Dec(1, 52041704, -18)>> >>          \* |1,1,1,1>

\* ------------------------------------------------------------------ state

VARIABLES
    pc,       \* position in the notebook: the cell that runs next, then
              \* "session" (at the prompt), "returned" (a call has returned),
              \* "rerun" and "reran" (the amplitude cell is run again);
              \* "raised" when a cell stopped on an error
    circ,     \* the circuit: [m, comps], Unset before pcvl.Circuit(12)
    qubit_istate,
    istate,
    simulator,  \* backend(circ): the unitary it is bound to
    printed,  \* the lines the amplitude loop has printed: [oqstate, a, shown],
              \* a the amplitude in exact arithmetic, shown the recorded float
    expected_output_states,  \* the dict, as the list of its [key, label] items
    turns,    \* number of turns made by the comprehension that builds it
    ca,       \* the analyser's row of [label, p], empty before ca.compute()
    call,     \* the call the open session has just evaluated: [fn, arg, ret]
    previous  \* while the amplitude cell is run again: the lines its run
              \* before printed, kept until the two runs have been compared;
              \* empty otherwise

vars == <<pc, circ, qubit_istate, istate, simulator, printed,
          expected_output_states, turns, ca, call, previous>>

NoCall == [fn |-> "", arg |-> <<>>, ret |-> <<>>]

Init ==
    /\ pc = "circuit"
    /\ circ = Unset
    /\ qubit_istate = <<>>
    /\ istate = <<>>
    /\ simulator = Unset
    /\ printed = <<>>
    /\ expected_output_states = <<>>
    /\ turns = 0
    /\ ca = <<>>
    /\ call = NoCall
    /\ previous = <<>>

\* circ = pcvl.Circuit(12)
NewCircuit ==
    /\ pc = "circuit"
    /\ circ = Unset
    /\ circ' = Circuit(M)
    /\ UNCHANGED <<pc, qubit_istate, istate, simulator, printed,
                   expected_output_states, turns, ca, call,
                   previous>>

\* The next circ.add call of the circuit cell.
CircAdd ==
    /\ pc = "circuit"
    /\ circ # Unset
    /\ LET k == Len(circ.comps) + 1
           r == CircuitAdd(circ, AddCalls[k].modes, AddCalls[k].comp)
       IN  /\ circ' = r.circ
           /\ pc' = IF r.err # "" THEN "raised"
                    ELSE IF k = Len(AddCalls) THEN "input"
                    ELSE "circuit"
    /\ UNCHANGED <<qubit_istate, istate, simulator, printed,
                   expected_output_states, turns, ca, call,
                   previous>>

\* qubit_istate = [0,0,0,1]; istate = toFockState(qubit_istate)
InputState ==
    /\ pc = "input"
    /\ qubit_istate' = <<0, 0, 0, 1>>
    /\ istate' = toFockState(qubit_istate')
    /\ pc' = "simulator"
    /\ UNCHANGED <<circ, simulator, printed, expected_output_states, turns, ca, call,
                   previous>>

\* simulator = backend(circ)
BindSimulator ==
    /\ pc = "simulator"
    /\ simulator' = [U |-> ComputeUnitary(circ)]
    /\ pc' = "amplitudes"
    /\ UNCHANGED <<circ, qubit_istate, istate, printed,
                   expected_output_states, turns, ca, call,
                   previous>>

\* One turn of "for oqstate in output_qubit_states": ostate, a, print; in the
\* notebook's run from top to bottom ("amplitudes"), or in a run of the cell
\* alone, started again from the open session ("rerun", then "reran" when the
\* cell has finished).
AmplitudeLoop ==
    /\ pc \in {"amplitudes", "rerun"}
    /\ LET k == Len(printed) + 1
           oqstate == output_qubit_states[k]
           ostate == toFockState(oqstate)
           a == probampli(simulator.U, istate, ostate)
       IN  /\ printed' = Append(printed,
                                [oqstate |-> oqstate, ostate |-> ostate, a |-> a,
                                 shown |-> RecordedAmplitudes[k]])
           /\ pc' = IF k < Len(output_qubit_states) THEN pc
                    ELSE IF pc = "amplitudes" THEN "expected"
                    ELSE "reran"
    /\ UNCHANGED <<circ, qubit_istate, istate, simulator,
                   expected_output_states, turns, ca, call,
                   previous>>

\* d[key] = label of a Python dict: a known key keeps its place.
DictPut(d, key, label) ==
    IF \E k \in 1 .. Len(d) : d[k].key = key
    THEN [k \in 1 .. Len(d) |->
            IF d[k].key = key THEN [key |-> key, label |-> label] ELSE d[k]]
    ELSE Append(d, [key |-> key, label |-> label])

\* The comprehension copying x2 into f2: [x1,x2,x1,x2].
ExpectedQubitStates_copy ==
    ListOf([k \in 1 .. 4 |->
              LET v1 == (k - 1) \div 2
                  v2 == (k - 1) % 2
              IN  <<v1, v2, v1, v2>>], 4)

\* The [x1,x2,x1,1-x2] of the comprehension's turns,
\* for x1 in [0,1] for x2 in [0,1].
ExpectedQubitStates ==
    ListOf([k \in 1 .. 4 |->
              LET v1 == (k - 1) \div 2
                  v2 == (k - 1) % 2
              IN  <<v1, v2, v1, 1 - v2>>], 4)

\* One turn of the comprehension that builds expected_output_states.
ExpectedStates ==
    /\ pc = "expected"
    /\ LET q == ExpectedQubitStates[turns + 1]
       IN  expected_output_states' =
               DictPut(expected_output_states, toFockState(q), q)
    /\ turns' = turns + 1
    /\ pc' = IF turns' = Len(ExpectedQubitStates) THEN "analyser" ELSE "expected"
    /\ UNCHANGED <<circ, qubit_istate, istate, simulator, printed, ca, call,
                   previous>>

\* ca = pcvl.CircuitAnalyser(...); ca.compute(): the probability of each
\* expected output state for the input state, not renormalised.
AnalyserCompute ==
    /\ pc = "analyser"
    /\ ca' = ListOf([k \in 1 .. Len(expected_output_states) |->
                       [label |-> expected_output_states[k].label,
                        p |-> AbsSquared(probampli(simulator.U, istate,
                                                   expected_output_states[k].key))]],
                    Len(expected_output_states))
    /\ pc' = "session"
    /\ UNCHANGED <<circ, qubit_istate, istate, simulator, printed,
                   expected_output_states, turns, call,
                   previous>>

\* toFockState(q), called in the open session.
CallToFockState ==
    /\ pc = "session"
    /\ \E q \in QubitStates :
         call' = [fn |-> "toFockState", arg |-> q, ret |-> toFockState(q)]
    /\ pc' = "returned"
    /\ UNCHANGED <<circ, qubit_istate, istate, simulator, printed,
                   expected_output_states, turns, ca,
                   previous>>

\* toQubitState(f), called on a Fock state or on any list of 12 integers once
\* the cell defining it has run, before the circuit cell: it reads nothing but
\* its argument, and no cell of the notebook calls it.
CallToQubitState ==
    /\ pc = "circuit"
    /\ circ = Unset
    /\ \E f \in FockInputs \cup IntegerInputs :
         call' = [fn |-> "toQubitState", arg |-> f, ret |-> toQubitState(f)]
    /\ pc' = "returned"
    /\ UNCHANGED <<circ, qubit_istate, istate, simulator, printed,
                   expected_output_states, turns, ca,
                   previous>>

\* A call of probampli by a backend that works on its unitary in place and
\* leaves it transposed.
CallProbampli_inplace ==
    /\ pc = "session"
    /\ \E i \in QueryStates \cup {istate},
          o \in QueryStates \cup {toFockState(q) : q \in QubitStates} :
         call' = [fn |-> "probampli", arg |-> <<i, o>>,
                  ret |-> probampli(simulator.U, i, o)]
    /\ simulator' =
           [U |-> ListOf([r \in 1 .. M |->
                            ListOf([c \in 1 .. M |-> simulator.U[c][r]], M)], M)]
    /\ pc' = "returned"
    /\ UNCHANGED <<circ, qubit_istate, istate, printed,
                   expected_output_states, turns, ca, previous>>

\* simulator.probampli(input, output), called in the open session: on the
\* notebook's input state or a bounded one, and an output state of the
\* encoding or a bounded one.
CallProbampli ==
    /\ pc = "session"
    /\ \E i \in QueryStates \cup {istate},
          o \in QueryStates \cup {toFockState(q) : q \in QubitStates} :
         call' = [fn |-> "probampli", arg |-> <<i, o>>,
                  ret |-> probampli(simulator.U, i, o)]
    /\ pc' = "returned"
    /\ UNCHANGED <<circ, qubit_istate, istate, simulator, printed,
                   expected_output_states, turns, ca, previous>>

\* The amplitude cell is run again from the open session: it rebuilds
\* output_qubit_states and starts its loop afresh.
RerunAmplitudeCell ==
    /\ pc = "session"
    /\ previous' = printed
    /\ printed' = <<>>
    /\ pc' = "rerun"
    /\ UNCHANGED <<circ, qubit_istate, istate, simulator,
                   expected_output_states, turns, ca, call>>

\* The cell run again has finished: the session is back at its prompt, the
\* lines of the run before are dropped.
RerunDone ==
    /\ pc = "reran"
    /\ pc' = "session"
    /\ previous' = <<>>
    /\ UNCHANGED <<circ, qubit_istate, istate, simulator, printed,
                   expected_output_states, turns, ca, call>>

\* The call has returned: back at the prompt it was made from, in front of
\* the circuit cell or in the open session.
Prompt ==
    /\ pc = "returned"
    /\ pc' = IF circ = Unset THEN "circuit" ELSE "session"
    /\ call' = NoCall
    /\ UNCHANGED <<circ, qubit_istate, istate, simulator, printed,
                   expected_output_states, turns, ca,
                   previous>>

Next ==
    \/ NewCircuit
    \/ CircAdd
    \/ InputState
    \/ BindSimulator
    \/ AmplitudeLoop
    \/ ExpectedStates
    \/ AnalyserCompute
    \/ CallToFockState
    \/ CallToQubitState
    \/ CallProbampli
    \/ RerunAmplitudeCell
    \/ RerunDone
    \/ Prompt

Spec == Init /\ [][Next]_vars

\* ------------------------------------------------------------- properties

\* The session has just evaluated the helper fn.
Returned(fn) == pc = "returned" /\ call.fn = fn

\* The session has just evaluated toQubitState on a Fock state: a list of
\* non-negative occupations.
ReturnedOnFockState ==
    /\ Returned("toQubitState")
    /\ \A k \in 1 .. Len(call.arg) : call.arg[k] >= 0

\* The occupations <<first mode, second mode>> of the mode pair p in f.
PairIn(f, p) == <<At(f, p[1]), At(f, p[2])>>

\* The rail a qubit value lights: 0 the first mode of the pair, 1 the second.
Rail(b) == IF b = 0 THEN <<1, 0>> ELSE <<0, 1>>

\* C1: round trip qubit -> Fock -> qubit.  For each of the 16 qubit states q,
\* toQubitState(toFockState(q)) is exactly q, and no other of the 16 states has
\* the Fock state of q (toFockState is injective on them).
C1_RoundTrip ==
    Returned("toFockState") =>
        /\ call.arg \in QubitStates
        /\ toQubitState(call.ret) = call.arg
        /\ \A q \in QubitStates : toFockState(q) = call.ret => q = call.arg

C1_Witness ==
    /\ Returned("toFockState")
    /\ call.arg = <<1, 0, 1, 1>>
    /\ toQubitState(call.ret) = <<1, 0, 1, 1>>

\* C2: partial inverse.  For every 12-mode Fock state f of non-negative
\* occupations, when toQubitState(f) is a list q (not None), toFockState(q) is f
\* mode for mode.
C2_PartialInverse ==
    (ReturnedOnFockState /\ call.ret # None) =>
        /\ Len(call.arg) = M
        /\ \A i \in Modes : At(call.arg, i) >= 0
        /\ toFockState(call.ret) = call.arg

C2_Witness ==
    /\ ReturnedOnFockState
    /\ call.ret = <<1, 0, 0, 1>>
    /\ toFockState(call.ret) = call.arg

\* Some auxiliary mode among 0, 5, 6, 11 of f holds a non-zero occupation.
AuxiliaryNonZero(f) == \E i \in {0, 5, 6, 11} : At(f, i) # 0

\* Some qubit mode pair of f does not hold exactly one photon in total.
PairNotSingle(f) ==
    \E p \in {<<1, 2>>, <<3, 4>>, <<7, 8>>, <<9, 10>>} :
        At(f, p[1]) + At(f, p[2]) # 1

\* C3: for every 12-mode Fock state f of non-negative occupations,
\* toQubitState(f) is None if and only if an auxiliary mode among 0, 5, 6, 11 is
\* occupied or a pair among (1,2), (3,4), (7,8), (9,10) does not hold exactly
\* one photon; in every other case it is a list of 4 values.
C3_NoneIffNotRepresentable ==
    ReturnedOnFockState =>
        /\ (call.ret = None) <=> (AuxiliaryNonZero(call.arg) \/ PairNotSingle(call.arg))
        /\ call.ret # None => Len(call.ret) = 4

C3_Witness ==
    /\ ReturnedOnFockState
    /\ call.ret = None
    /\ ~AuxiliaryNonZero(call.arg)
    /\ SumSeq(call.arg) = 4

\* A Fock state of the encoding: 12 occupations, each 0 or 1, 4 photons in
\* all, one in each of the pairs (1,2), (3,4), (7,8), (9,10), none in the
\* modes 0, 5, 6, 11.
EncodedFockState(f) ==
    /\ Len(f) = 12
    /\ \A k \in 1 .. Len(f) : f[k] \in {0, 1}
    /\ SumSeq(f) = 4
    /\ \A p \in {<<1, 2>>, <<3, 4>>, <<7, 8>>, <<9, 10>>} :
           At(f, p[1]) + At(f, p[2]) = 1
    /\ \A i \in {0, 5, 6, 11} : At(f, i) = 0

\* C4: for every qubit state q of 4 values in {0,1}, toFockState(q) is a Fock
\* state of the encoding (12 occupations in {0,1}, 4 photons, one per qubit
\* pair, none in an auxiliary mode); so the input state and every output state
\* the amplitude loop queries have the same mode count and photon count.
C4_FockStateShape ==
    /\ Returned("toFockState") => EncodedFockState(call.ret)
    /\ istate # <<>> => EncodedFockState(istate)
    /\ \A k \in 1 .. Len(printed) :
           /\ EncodedFockState(printed[k].ostate)
           /\ Len(printed[k].ostate) = Len(istate)
           /\ SumSeq(printed[k].ostate) = SumSeq(istate)

C4_Witness ==
    /\ Returned("toFockState")
    /\ call.arg = <<1, 1, 0, 1>>
    /\ EncodedFockState(call.ret)
    /\ Len(printed) = 16

ModesInRange(c) ==
    \A k \in 1 .. Len(c.comps) :
        \A j \in 1 .. Len(c.comps[k].modes) :
            0 <= c.comps[k].modes[j] /\ c.comps[k].modes[j] < 12

\* C7: after every prefix of the cell's circ.add calls on the 12-mode circuit,
\* from the empty circuit to all 18 components, no call has been refused and
\* every component added so far is bound only to mode indices in [0, 12).
C7_ModesInRange ==
    circ # Unset =>
        /\ circ.m = 12
        /\ pc # "raised"
        /\ Len(circ.comps) <= 18
        /\ circ.comps = SubSeq(AddCalls, 1, Len(circ.comps))
        /\ pc # "circuit" => Len(circ.comps) = 18
        /\ ModesInRange(circ)

C7_Witness ==
    /\ pc = "input"
    /\ Len(circ.comps) = 18
    /\ ModesInRange(circ)

\* The positions in the list L of components where an H gate on the pair q
\* starts: the beam splitter BS(R=1/2, phi=pi/2) on q, then the phase shifter
\* PS(pi) on the second mode of q.
HGatesOn(L, q) ==
    {k \in 1 .. Len(L) :
        /\ k + 1 <= Len(L)
        /\ L[k].modes = q
        /\ L[k].comp = symb_BS(<<1, 2>>, 1)
        /\ L[k + 1].modes = <<q[2]>>
        /\ L[k + 1].comp = symb_PS(2)}

\* The positions in L of the CZ beam splitters BS(R=2/3) touching a mode of q.
CZSplittersOn(L, q) ==
    {k \in 1 .. Len(L) :
        /\ L[k].comp.kind = "BS"
        /\ L[k].comp.R = <<2, 3>>
        /\ \E j \in 1 .. Len(L[k].modes) : L[k].modes[j] \in {q[1], q[2]}}

\* C8: gate ordering in the insertion sequence.  At every moment each CZ beam
\* splitter touching a qubit's modes comes after an H gate on that qubit.  Once
\* the cell has run: on f1 and on f2 there are two H gates, one before and one
\* after all the CZ beam splitters touching the qubit's modes; on x1 and on x2
\* there is exactly one H gate, before every such CZ beam splitter.
C8_GateOrdering ==
    circ # Unset =>
        LET L == circ.comps
        IN  /\ \A q \in {x1, x2, f1, f2} :
                   LET H == HGatesOn(L, q)
                   IN  \A c \in CZSplittersOn(L, q) : \E h \in H : h + 1 < c
            /\ pc \notin {"circuit", "raised"} =>
                   /\ \A f \in {f1, f2} :
                          LET H == HGatesOn(L, f)
                              CZ == CZSplittersOn(L, f)
                          IN  /\ Cardinality(H) = 2
                              /\ CZ # {}
                              /\ \E h1, h2 \in H :
                                     \A c \in CZ : h1 + 1 < c /\ c < h2
                   /\ \A x \in {x1, x2} :
                          /\ Cardinality(HGatesOn(L, x)) = 1
                          /\ CZSplittersOn(L, x) # {}

C8_Witness ==
    /\ pc = "input"
    /\ HGatesOn(circ.comps, f1) = {3, 15}
    /\ CZSplittersOn(circ.comps, f1) = {10, 11}
    /\ HGatesOn(circ.comps, x2) = {5}
    /\ CZSplittersOn(circ.comps, x2) = {12, 13}

\* The qubit states |0,0,0,1>, |0,1,0,0>, |1,0,1,1>, |1,1,1,0>.
PostSelected == {<<0, 0, 0, 1>>, <<0, 1, 0, 0>>, <<1, 0, 1, 1>>, <<1, 1, 1, 0>>}

\* C9: the states the notebook post-selects on, toFockState([x1,x2,x1,1-x2])
\* for x1, x2 in {0,1}, are the four qubit states |0,0,0,1>, |0,1,0,0>,
\* |1,0,1,1>, |1,1,1,0> (f1 = x1 and f2 = 1 - x2); they are pairwise distinct,
\* each is one of the 16 enumerated output qubit states, and their Fock states
\* are pairwise distinct, so that every turn of the comprehension adds a key.
C9_PostSelectedStates ==
    /\ Len(expected_output_states) = turns
    /\ \A k \in 1 .. Len(expected_output_states) :
           LET e == expected_output_states[k]
           IN  /\ e.label \in PostSelected
               /\ At(e.label, 2) = At(e.label, 0)
               /\ At(e.label, 3) = 1 - At(e.label, 1)
               /\ \E j \in 1 .. Len(output_qubit_states) :
                      output_qubit_states[j] = e.label
               /\ e.key = toFockState(e.label)
               /\ \A j \in 1 .. Len(expected_output_states) :
                      j # k => /\ expected_output_states[j].label # e.label
                               /\ expected_output_states[j].key # e.key
    /\ (circ # Unset /\ pc \in {"analyser", "session", "returned", "rerun", "reran"}) =>
           {expected_output_states[k].label :
                k \in 1 .. Len(expected_output_states)} = PostSelected

C9_Witness ==
    /\ pc = "analyser"
    /\ Len(expected_output_states) = 4
    /\ expected_output_states[3].label = <<1, 0, 1, 1>>
    /\ expected_output_states[3].key = <<0, 0, 1, 0, 1, 0, 0, 1, 0, 0, 1, 0>>

\* The printed float x is below 10^-9 in magnitude.
Negligible(x) == x.s = 0 \/ x.exp <= -10

\* The printed float x is within 10^-9 of 1/18 in magnitude.
NearOneEighteenth(x) ==
    /\ x.s # 0
    /\ x.exp = -2
    /\ x.lead * 18 <= 1000000000
    /\ 1000000000 < (x.lead + 1) * 18

\* C10, as amended: for the circuit the cell builds (its unitary is the
\* recorded circ.U) and the input Fock state [0,1,0,1,0,0,0,1,0,0,1,0], the
\* amplitude into toFockState(q) is zero in exact arithmetic, and below 10^-9
\* in magnitude as the float the run prints, for each of the 12 qubit states q
\* outside |0,0,0,1>, |0,1,0,0>, |1,0,1,1>, |1,1,1,0>; for each of these four
\* it has magnitude 1/18 in exact arithmetic, within 10^-9 of 1/18 as printed,
\* and the analyser's probability is 1/324.
C10_AmplitudesWithinTolerance ==
    /\ simulator # Unset => simulator.U = RecordedU
    /\ \A k \in 1 .. Len(printed) :
           LET l == printed[k]
           IN  /\ istate = <<0, 1, 0, 1, 0, 0, 0, 1, 0, 0, 1, 0>>
               /\ IF l.oqstate \in PostSelected
                  THEN /\ AbsSquared(l.a) = Rat(1, 324)
                       /\ NearOneEighteenth(l.shown[1])
                       /\ Negligible(l.shown[2])
                  ELSE /\ l.a = Zero
                       /\ Negligible(l.shown[1])
                       /\ Negligible(l.shown[2])
    /\ Len(ca) \in {0, 4}
    /\ \A k \in 1 .. Len(ca) : ca[k].p = Rat(1, 324)

C10_Witness ==
    /\ pc = "session"
    /\ Len(printed) = 16
    /\ printed[6].oqstate = <<0, 1, 0, 1>>
    /\ printed[6].a = Zero
    /\ printed[6].shown[1].s # 0
    /\ printed[5].a = CNeg(Rat(1, 18))
    /\ Len(ca) = 4

\* C10 as stated: the amplitude the run computes is zero for each of the 12
\* qubit states outside the four, and of magnitude 1/18 for each of the four.
C10_AmplitudesExact ==
    \A k \in 1 .. Len(printed) :
        LET l == printed[k]
        IN  IF l.oqstate \in PostSelected
            THEN AbsSquared(l.a) = Rat(1, 324)
            ELSE l.a = Zero /\ l.shown = <<DecZero, DecZero>>

\* The 16 qubit states [x1,x2,f1,f2] in lexicographic order.
Lexicographic ==
    << <<0, 0, 0, 0>>, <<0, 0, 0, 1>>, <<0, 0, 1, 0>>, <<0, 0, 1, 1>>,
       <<0, 1, 0, 0>>, <<0, 1, 0, 1>>, <<0, 1, 1, 0>>, <<0, 1, 1, 1>>,
       <<1, 0, 0, 0>>, <<1, 0, 0, 1>>, <<1, 0, 1, 0>>, <<1, 0, 1, 1>>,
       <<1, 1, 0, 0>>, <<1, 1, 0, 1>>, <<1, 1, 1, 0>>, <<1, 1, 1, 1>> >>

\* The amplitude cell is not running and has run to its end.
AmplitudeCellDone ==
    circ # Unset /\ pc \in {"expected", "analyser", "session", "returned", "reran"}

\* C11: the enumeration keeps order and multiplicity.  The amplitude loop
\* yields one (output state, value) line per candidate, in the order of the
\* list: the k-th line is for the k-th of the 16 states [x1,x2,f1,f2] in
\* lexicographic order, from |0,0,0,0> to |1,1,1,1>, none skipped, repeated or
\* reordered, 16 lines in all; and running the cell again yields the same
\* sequence, line for line.
C11_EnumerationKeepsOrder ==
    /\ Len(printed) <= 16
    /\ \A k \in 1 .. Len(printed) :
           /\ printed[k].oqstate = Lexicographic[k]
           /\ printed[k].ostate = toFockState(Lexicographic[k])
           /\ \A j \in 1 .. Len(printed) :
                  j # k => printed[j].oqstate # printed[k].oqstate
    /\ AmplitudeCellDone => Len(printed) = 16
    /\ previous # <<>> =>
           /\ Len(previous) = 16
           /\ \A k \in 1 .. Len(printed) : printed[k] = previous[k]

C11_Witness ==
    /\ pc = "reran"
    /\ Len(previous) = 16
    /\ printed = previous
    /\ printed[1].oqstate = <<0, 0, 0, 0>>
    /\ printed[16].oqstate = <<1, 1, 1, 1>>

\* C12: for every pair of input and output Fock states of 12 modes whose total
\* photon numbers differ, probampli returns exactly 0 as a value, the call
\* returns to the session without an error, and the step changes nothing but
\* the record of the call.
C12_MismatchIsZero ==
    [][(/\ call'.fn = "probampli"
        /\ SumSeq(call'.arg[1]) # SumSeq(call'.arg[2]))
       => /\ pc' = "returned"
          /\ call'.ret = Zero
          /\ Len(call'.arg[1]) = Len(call'.arg[2])
          /\ UNCHANGED <<circ, qubit_istate, istate, simulator, printed,
                         expected_output_states, turns, ca, previous>>]_vars

C12_Witness ==
    /\ Returned("probampli")
    /\ SumSeq(call.arg[1]) = 1
    /\ SumSeq(call.arg[2]) = 0
    /\ call.ret = Zero

Entries(l) == {l[k] : k \in 1 .. Len(l)}

\* C14: each of the two CZ gates is three beam splitters BS(R=2/3) on six
\* pairwise distinct modes: an inner one joining the second mode of the control
\* x_i with the first mode of the target f_i, and two outer ones, joining an
\* auxiliary mode with the first mode of x_i, and the second mode of f_i with
\* an auxiliary mode.  The auxiliary modes {0,5,6,11} and the qubit modes
\* {1,2,3,4,7,8,9,10} are disjoint and together are the modes 0..11.
C14_CZGateStructure ==
    circ # Unset =>
        /\ Entries(am1) \cup Entries(am2) = {0, 5, 6, 11}
        /\ Entries(x1) \cup Entries(f1) \cup Entries(x2) \cup Entries(f2)
               = {1, 2, 3, 4, 7, 8, 9, 10}
        /\ {0, 5, 6, 11} \cap {1, 2, 3, 4, 7, 8, 9, 10} = {}
        /\ {0, 5, 6, 11} \cup {1, 2, 3, 4, 7, 8, 9, 10} = 0 .. 11
        /\ pc \notin {"circuit", "raised"} =>
               \A g \in {<< <<1, 2>>, <<3, 4>> >>, << <<7, 8>>, <<9, 10>> >>} :
                   LET L == circ.comps
                       x == g[1]
                       f == g[2]
                       S == CZSplittersOn(L, x) \cup CZSplittersOn(L, f)
                   IN  /\ Cardinality(S) = 3
                       /\ Cardinality(UNION {Entries(L[k].modes) : k \in S}) = 6
                       /\ \E k \in S : L[k].modes = <<x[2], f[1]>>
                       /\ \E k \in S : \E a \in {0, 5, 6, 11} :
                              Entries(L[k].modes) = {a, x[1]}
                       /\ \E k \in S : \E a \in {0, 5, 6, 11} :
                              Entries(L[k].modes) = {f[2], a}

C14_Witness ==
    /\ pc = "input"
    /\ circ.comps[9].modes = <<0, 1>>
    /\ circ.comps[10].modes = <<2, 3>>
    /\ circ.comps[11].modes = <<4, 5>>
    /\ circ.comps[13].modes = <<8, 9>>
    /\ Cardinality(CZSplittersOn(circ.comps, <<7, 8>>)
                     \cup CZSplittersOn(circ.comps, <<9, 10>>)) = 3

\* The Fock state f holds 2 photons in the modes 0..5 and 2 in the modes 6..11.
TwoPhotonsPerBlock(f) ==
    /\ SumSeq(SubSeq(f, 1, 6)) = 2
    /\ SumSeq(SubSeq(f, 7, 12)) = 2

\* C15: the circuit is two independent blocks of 6 modes.  Every beam splitter
\* added acts on two adjacent modes (m, m+1), no component is bound to a mode
\* in 0..5 together with a mode in 6..11, and the cell adds 18 components; every
\* state toFockState produces holds exactly 2 photons in the modes 0..5 and
\* exactly 2 in the modes 6..11.
C15_TwoBlocks ==
    /\ circ # Unset =>
           /\ \A k \in 1 .. Len(circ.comps) :
                  LET c == circ.comps[k]
                  IN  /\ c.comp.kind = "BS" =>
                             /\ Len(c.modes) = 2
                             /\ c.modes[2] = c.modes[1] + 1
                      /\ \/ \A m \in Entries(c.modes) : m \in 0 .. 5
                         \/ \A m \in Entries(c.modes) : m \in 6 .. 11
           /\ pc \notin {"circuit", "raised"} => Len(circ.comps) = 18
    /\ Returned("toFockState") => TwoPhotonsPerBlock(call.ret)
    /\ istate # <<>> => TwoPhotonsPerBlock(istate)
    /\ \A k \in 1 .. Len(printed) : TwoPhotonsPerBlock(printed[k].ostate)

C15_Witness ==
    /\ Returned("toFockState")
    /\ call.arg = <<1, 1, 0, 0>>
    /\ TwoPhotonsPerBlock(call.ret)
    /\ Len(circ.comps) = 18
    /\ circ.comps[11].modes = <<4, 5>>
    /\ circ.comps[12].modes = <<6, 7>>

\* C16: toQubitState only ever returns well-formed qubit states.  For every
\* list of 12 integers passed to it, entries negative or larger than 1
\* included, the result is None or a list of exactly 4 entries, each 0 or 1.
C16_WellFormedResult ==
    Returned("toQubitState") =>
        \/ call.ret = None
        \/ /\ Len(call.ret) = 4
           /\ \A k \in 1 .. Len(call.ret) : call.ret[k] \in {0, 1}

\* toQubitState has returned a list holding an entry that is no qubit value.
C16_Witness ==
    /\ Returned("toQubitState")
    /\ call.arg = <<0, 2, -1, 1, 0, 0, 0, 1, 0, 1, 0, 0>>
    /\ call.ret = <<-1, 0, 0, 0>>

====
